---- MODULE Spec2Model ----
(***************************************************************************)
(* State-machine model of the radio driver capsule                         *)
(* (capsules/src/radio.rs): the busy flag, the single registration record, *)
(* the kernel transmission buffer and the hardware radio it drives; of the *)
(* transmit length it computes, over the full range of its operands; and   *)
(* of the Signbus application layer (capsules/src/signbus_app_layer.rs)    *)
(* with its one payload buffer.                                            *)
(***************************************************************************)
EXTENDS Integers, Sequences, FiniteSets, TLC

VARIABLES
    busy,        \* RadioDriver.busy: Cell<bool>
    app,         \* RadioDriver.app: TakeCell<App>
    kernel_tx,   \* RadioDriver.kernel_tx: TakeCell<&'static mut [u8]>
    configured,  \* config_buffer has been called by the board
    radio_ready, \* what radio.ready() answers
    hw_tx,       \* the transmissions the radio accepted and has not completed
    hw_rx,       \* the radio holds its receive buffer (set_receive_buffer)
    handed,      \* number of radio.transmit calls so far: 0, 1, or 2 for more
    completed,   \* number of send_done deliveries so far: 0, 1, or 2 for more
    op,          \* the operation that ran last
    hw_rval,     \* what radio.transmit returned in it ("NONE": not called)
    rc,          \* the ReturnCode that operation returned
    sched,       \* the callback that operation scheduled, with its argument
    copied,      \* the number of bytes its copy loop stored
    rx_returns,  \* the number of radio.set_receive_buffer calls it made
    panicked     \* a Rust panic (bounds check, overflow check) halted the kernel

(* the transmit length on its own *)
VARIABLES
    tx_in,       \* the transmit argument and the header size the radio reports
    tx_out       \* the length computed from them, once computed

(* capsules/src/signbus_app_layer.rs *)
VARIABLES
    payload,        \* SignbusAppLayer.payload: TakeCell<'static, [u8]>
    protocol_calls, \* number of signbus_protocol_send calls: 0, 1, or 2 for more
    protocol_got,   \* what the last of them was given and what it returned
    app_calls,      \* number of signbus_app_send calls that returned, likewise
    app_rc,         \* the ReturnCode the last signbus_app_send returned
    app_panicked    \* a Rust panic halted the kernel inside signbus_app_send

radio_vars == <<busy, app, kernel_tx, configured, radio_ready, hw_tx, hw_rx,
                handed, completed, op, hw_rval, rc, sched, copied, rx_returns,
                panicked>>

length_vars == <<tx_in, tx_out>>

signbus_vars == <<payload, protocol_calls, protocol_got, app_calls, app_rc,
                  app_panicked>>

vars == <<radio_vars, length_vars, signbus_vars>>

----------------------------------------------------------------------------
(* Bounds of the model *)

MaxSlice == 2       \* longest process slice passed to allow
MaxMsg == 2         \* longest message passed to signbus_app_send
SignbusBufLen == 4  \* length of the payload buffer given to SignbusAppLayer::new
MaxCb == 2          \* number of distinct callbacks a process may subscribe
KBufLen == 2        \* length of the buffer the board gives config_buffer
RxBufLen == 3       \* length of the radio's receive buffer
PayloadOffset == 1  \* radio.payload_offset()
HeaderSize == 2     \* radio.header_size()

----------------------------------------------------------------------------
(* Option<T>: None is the empty sequence, Some(x) the one-element sequence *)

None == << >>

Some(x) == << x >>

IsSome(o) == Len(o) = 1

Unwrap(o) == o[1]

(* Option::take on a field: the value read, and None left behind *)
OptionTake(o) == [val |-> o, left |-> None]

----------------------------------------------------------------------------
(* Inputs *)

Callbacks == 1..MaxCb

AppIds == {1, 2}

Addresses == {4660}  \* 0x1234

(* a slice of n bytes whose i-th byte (from 0) is base + i + 1 *)
Pattern(n, base) == [i \in 1..n |-> base + i]

WriteSlices == {Pattern(n, 0) : n \in 0..MaxSlice}

ReadSlices == {[i \in 1..n |-> 0] : n \in 0..MaxSlice}

KernelBuffer == [i \in 1..KBufLen |-> 0]

RxBuffer == Pattern(RxBufLen, 10)

(* the packed transmit argument: bits 0-15 address, bits 16-23 length;    *)
(* bits 24-31 are drawn too, they are masked off by the decode             *)
TxArgs ==
    {a + l * 65536 + h * 16777216 : a \in Addresses, l \in 0..(MaxSlice + 1), h \in {0, 1}}

HwRejections == {"FAIL", "EBUSY"}

HwResults == {"SUCCESS", "FAIL"}

(* the history counters tell none, one, and two or more apart *)
Sat(n) == IF n < 2 THEN n + 1 ELSE 2

----------------------------------------------------------------------------
(* RadioDriver::new *)

EmptyApp == [tx_callback |-> None, rx_callback |-> None,
             app_read |-> None, app_write |-> None]

RadioInit ==
    /\ busy = FALSE
    /\ app = None
    /\ kernel_tx = None
    /\ configured = FALSE
    /\ radio_ready \in BOOLEAN
    /\ hw_tx = << >>
    /\ hw_rx = TRUE
    /\ handed = 0
    /\ completed = 0
    /\ op = "new"
    /\ hw_rval = "NONE"
    /\ rc = "NONE"
    /\ sched = None
    /\ copied = 0
    /\ rx_returns = 0
    /\ panicked = FALSE

(* no length is being computed *)
LengthIdle ==
    /\ tx_in = [arg1 |-> 0, header_size |-> HeaderSize]
    /\ tx_out = None

(* SignbusAppLayer::new: the payload cell holds the buffer it was given *)
SignbusInit ==
    /\ payload = Some([i \in 1..SignbusBufLen |-> 0])
    /\ protocol_calls = 0
    /\ protocol_got = None
    /\ app_calls = 0
    /\ app_rc = "NONE"
    /\ app_panicked = FALSE

Init == RadioInit /\ LengthIdle /\ SignbusInit

(* an operation that returns code, schedules no callback, copies nothing *)
(* and calls neither radio.transmit nor radio.set_receive_buffer          *)
Returns(name, code) ==
    /\ op' = name
    /\ rc' = code
    /\ sched' = None
    /\ hw_rval' = "NONE"
    /\ copied' = 0
    /\ rx_returns' = 0

config_buffer(tx_buf) ==
    /\ ~panicked
    /\ ~configured
    /\ kernel_tx' = Some(tx_buf)
    /\ configured' = TRUE
    /\ Returns("config_buffer", "NONE")
    /\ UNCHANGED <<busy, app, radio_ready, hw_tx, hw_rx, handed, completed,
                   panicked>>
    /\ UNCHANGED <<length_vars, signbus_vars>>

----------------------------------------------------------------------------
(* Driver::allow *)

(* a call that builds a fresh record even when one exists *)
AppOrEmpty_Reset == EmptyApp

AppOrEmpty == IF IsSome(app) THEN Unwrap(app) ELSE EmptyApp

(* an allow whose unsupported arm leaves the record cell empty *)
allow_DropsRecord(appid, allow_num, slice) ==
    /\ ~panicked
    /\ IF allow_num = 0
         THEN /\ app' = Some([AppOrEmpty EXCEPT !.app_read = Some(slice)])
              /\ Returns("allow", "SUCCESS")
         ELSE IF allow_num = 1
         THEN /\ app' = Some([AppOrEmpty EXCEPT !.app_write = Some(slice)])
              /\ Returns("allow", "SUCCESS")
         ELSE /\ app' = None
              /\ Returns("allow", "ENOSUPPORT")
    /\ UNCHANGED <<busy, kernel_tx, configured, radio_ready, hw_tx, hw_rx,
                   handed, completed, panicked>>
    /\ UNCHANGED <<length_vars, signbus_vars>>

allow(appid, allow_num, slice) ==
    /\ ~panicked
    /\ IF allow_num = 0
         THEN /\ app' = Some([AppOrEmpty EXCEPT !.app_read = Some(slice)])
              /\ Returns("allow", "SUCCESS")
         ELSE IF allow_num = 1
         THEN /\ app' = Some([AppOrEmpty EXCEPT !.app_write = Some(slice)])
              /\ Returns("allow", "SUCCESS")
         ELSE /\ app' = app
              /\ Returns("allow", "ENOSUPPORT")
    /\ UNCHANGED <<busy, kernel_tx, configured, radio_ready, hw_tx, hw_rx,
                   handed, completed, panicked>>
    /\ UNCHANGED <<length_vars, signbus_vars>>

(* Driver::subscribe *)
subscribe(subscribe_num, callback) ==
    /\ ~panicked
    /\ IF subscribe_num = 0
         THEN /\ app' = Some([AppOrEmpty EXCEPT !.tx_callback = Some(callback)])
              /\ Returns("subscribe", "SUCCESS")
         ELSE IF subscribe_num = 1
         THEN /\ app' = Some([AppOrEmpty EXCEPT !.rx_callback = Some(callback)])
              /\ Returns("subscribe", "SUCCESS")
         ELSE /\ app' = app
              /\ Returns("subscribe", "ENOSUPPORT")
    /\ UNCHANGED <<busy, kernel_tx, configured, radio_ready, hw_tx, hw_rx,
                   handed, completed, panicked>>
    /\ UNCHANGED <<length_vars, signbus_vars>>

----------------------------------------------------------------------------
(* Driver::command *)

Unchanged_driver ==
    UNCHANGED <<busy, app, kernel_tx, configured, radio_ready, hw_tx, hw_rx,
                handed, completed, panicked>>

(* a Rust panic stops the kernel: nothing runs afterwards; n bytes had *)
(* been stored by the copy loop when it struck                          *)
Panic(name, n) ==
    /\ panicked' = TRUE
    /\ op' = name
    /\ rc' = "PANIC"
    /\ sched' = None
    /\ hw_rval' = "NONE"
    /\ copied' = n
    /\ rx_returns' = 0
    /\ UNCHANGED <<busy, app, kernel_tx, configured, radio_ready, hw_tx,
                   handed, completed>>

(* the transmit arm without its busy check *)
TxPrecheck_NoBusy ==
    IF ~radio_ready THEN "EOFF"
    ELSE IF ~IsSome(kernel_tx) THEN "ENOMEM"
    ELSE "OK"

(* the transmit arm asking the radio before it looks at busy *)
TxPrecheck_ReadyFirst ==
    IF ~radio_ready THEN "EOFF"
    ELSE IF busy THEN "EBUSY"
    ELSE IF ~IsSome(kernel_tx) THEN "ENOMEM"
    ELSE "OK"

(* the three checks that open the transmit arm, in the order of the code *)
TxPrecheck ==
    IF busy THEN "EBUSY"
    ELSE IF ~radio_ready THEN "EOFF"
    ELSE IF ~IsSome(kernel_tx) THEN "ENOMEM"
    ELSE "OK"

(* let len: usize = (arg1 >> 16) & 0xff *)
DecodeLen(arg1) == (arg1 \div 65536) % 256

(* let addr: u16 = (arg1 & 0xffff) as u16 *)
DecodeAddr(arg1) == arg1 % 65536

(* blen: 0, or the length of the write-source slice when one is registered *)
WriteLen(a) == IF IsSome(a.app_write) THEN Len(Unwrap(a.app_write)) ELSE 0

(* for (i, c) in src[0..len]: kbuf[i + offset] = *c  -- the bounds check of *)
(* kbuf[i + offset] fails when the last index is outside the buffer         *)
CopyPanics(kbuf, len, offset) == len > 0 /\ offset + len > Len(kbuf)

(* the bytes the loop has stored when it ends or panics *)
CopyCount(kbuf, len, offset) ==
    IF ~CopyPanics(kbuf, len, offset) THEN len
    ELSE IF Len(kbuf) > offset THEN Len(kbuf) - offset
    ELSE 0

CopyIn(kbuf, src, len, offset) ==
    [i \in 1..Len(kbuf) |->
        IF i > offset /\ i <= offset + len THEN src[i - offset] ELSE kbuf[i]]

(* len as u8 + header_size: a u8 sum, which panics in a build with overflow *)
(* checks and wraps in one without                                          *)
U8AddOverflows(a, b) == a + b > 255

U8Add(a, b) == (a + b) % 256

TransmitLenOverflows(len) == U8AddOverflows(len % 256, HeaderSize)

TransmitLen(len) == U8Add(len % 256, HeaderSize)

(* whether the sum is checked depends on the build, and matters only when *)
(* the sum overflows                                                       *)
OverflowChecks(len) == IF TransmitLenOverflows(len) THEN BOOLEAN ELSE {FALSE}

(* the value of the closure given to app.map is dropped by the `;` after    *)
(* the map; the arm then ends in `return ReturnCode::ERESERVE`              *)
TxReturn(closure_result) == "ERESERVE"

command_tx(arg1) ==
    /\ ~panicked
    /\ IF TxPrecheck # "OK"
         THEN Returns("command_tx", TxPrecheck) /\ Unchanged_driver
       ELSE IF ~IsSome(app)
         THEN Returns("command_tx", "ERESERVE") /\ Unchanged_driver
       ELSE
         LET a == Unwrap(app)
             blen == WriteLen(a)
             len == DecodeLen(arg1)
             addr == DecodeAddr(arg1)
             offset == PayloadOffset
             kbuf0 == Unwrap(kernel_tx)
         IN IF blen < len
              THEN Returns("command_tx", TxReturn("ESIZE")) /\ Unchanged_driver
            ELSE IF IsSome(a.app_write) /\ CopyPanics(kbuf0, len, offset)
              THEN Panic("command_tx", CopyCount(kbuf0, len, offset)) /\ hw_rx' = hw_rx
            ELSE
              LET kbuf == IF IsSome(a.app_write)
                            THEN CopyIn(kbuf0, Unwrap(a.app_write), len, offset)
                            ELSE kbuf0
              IN \E checked \in OverflowChecks(len), rval \in {"SUCCESS"} \cup HwRejections :
                    IF checked
                      THEN /\ Panic("command_tx",
                                    IF IsSome(a.app_write) THEN len ELSE 0)
                           /\ hw_rx' = hw_rx
                      ELSE /\ kernel_tx' = None
                           /\ handed' = Sat(handed)
                           /\ IF rval = "SUCCESS"
                                THEN /\ busy' = TRUE
                                     /\ hw_tx' = Append(hw_tx, [buf |-> kbuf, addr |-> addr,
                                                                len |-> TransmitLen(len)])
                                ELSE /\ busy' = busy
                                     /\ hw_tx' = hw_tx
                           /\ op' = "command_tx"
                           /\ rc' = TxReturn(rval)
                           /\ sched' = None
                           /\ hw_rval' = rval
                           /\ copied' = IF IsSome(a.app_write)
                                           THEN CopyCount(kbuf0, len, offset)
                                           ELSE 0
                           /\ rx_returns' = 0
                           /\ UNCHANGED <<app, configured, radio_ready, hw_rx,
                                          completed, panicked>>
    /\ UNCHANGED <<length_vars, signbus_vars>>

(* a dispatch whose set-channel arm reports success *)
CommandResult_ChannelOk(cmd_num) ==
    IF cmd_num = 0 THEN "SUCCESS"
    ELSE IF cmd_num = 3 THEN "SUCCESS"
    ELSE IF cmd_num = 4 THEN "ENOSUPPORT"
    ELSE IF cmd_num = 6 THEN (IF radio_ready THEN "SUCCESS" ELSE "EOFF")
    ELSE "ENOSUPPORT"

(* selectors 0, 3, 4, 6 and the unknown ones *)
CommandResult(cmd_num) ==
    IF cmd_num = 0 THEN "SUCCESS"
    ELSE IF cmd_num = 3 THEN "ENOSUPPORT"
    ELSE IF cmd_num = 4 THEN "ENOSUPPORT"
    ELSE IF cmd_num = 6 THEN (IF radio_ready THEN "SUCCESS" ELSE "EOFF")
    ELSE "ENOSUPPORT"

(* selectors 1 and 2 return what radio.set_address / radio.set_pan return *)
command_radio(cmd_num, arg1, hw_result) ==
    /\ ~panicked
    /\ cmd_num \in {1, 2}
    /\ Returns("command", hw_result)
    /\ Unchanged_driver
    /\ UNCHANGED <<length_vars, signbus_vars>>

command_plain(cmd_num, arg1) ==
    /\ ~panicked
    /\ cmd_num \notin {1, 2, 5}
    /\ Returns("command", CommandResult(cmd_num))
    /\ Unchanged_driver
    /\ UNCHANGED <<length_vars, signbus_vars>>

command(cmd_num, arg1, appid) ==
    IF cmd_num = 5 THEN command_tx(arg1)
    ELSE IF cmd_num \in {1, 2} THEN \E r \in HwResults : command_radio(cmd_num, arg1, r)
    ELSE command_plain(cmd_num, arg1)

----------------------------------------------------------------------------
(* radio::TxClient::send_done, called by the radio with the buffer of the  *)
(* oldest transmission it accepted                                          *)

(* send_done that forgets self.busy.set(false) *)
ReclaimTx_KeepsBusy(buf) == [kernel_tx |-> Some(buf), busy |-> busy]

(* send_done that forgets self.kernel_tx.replace(buf) *)
ReclaimTx_DropsBuffer(buf) == [kernel_tx |-> kernel_tx, busy |-> FALSE]

(* self.kernel_tx.replace(buf); self.busy.set(false) *)
ReclaimTx(buf) == [kernel_tx |-> Some(buf), busy |-> FALSE]

send_done(buf, result) ==
    /\ ~panicked
    /\ Len(hw_tx) > 0
    /\ buf = Head(hw_tx).buf
    /\ hw_tx' = Tail(hw_tx)
    /\ completed' = Sat(completed)
    /\ op' = "send_done"
    /\ rc' = "NONE"
    /\ hw_rval' = "NONE"
    /\ copied' = 0
    /\ rx_returns' = 0
    /\ IF IsSome(app)
         THEN LET a == Unwrap(app)
                  cb == OptionTake(a.tx_callback)
              IN /\ kernel_tx' = ReclaimTx(buf).kernel_tx
                 /\ busy' = ReclaimTx(buf).busy
                 /\ app' = Some([a EXCEPT !.tx_callback = cb.left])
                 /\ sched' = IF IsSome(cb.val)
                               THEN Some([cb |-> Unwrap(cb.val), arg |-> result])
                               ELSE None
         ELSE /\ UNCHANGED <<kernel_tx, busy, app>>
              /\ sched' = None
    /\ UNCHANGED <<configured, radio_ready, hw_rx, handed, panicked>>
    /\ UNCHANGED <<length_vars, signbus_vars>>

----------------------------------------------------------------------------
(* radio::RxClient::receive *)

(* buf[offset..len]: the slice panics when offset > len or len > buf.len() *)
SlicePanics(buf, offset, len) == offset > len \/ len > Len(buf)

(* d[i] = *c for the len - offset bytes: panics past the end of d *)
DeliverPanics(d, offset, len) == len - offset > Len(d)

(* a copy loop that stores without the bounds check of d[i] *)
DeliverCount_Unchecked(d, buf, offset, len) ==
    IF SlicePanics(buf, offset, len) THEN 0 ELSE len - offset

(* the bytes the loop has stored when it ends or panics *)
DeliverCount(d, buf, offset, len) ==
    IF SlicePanics(buf, offset, len) THEN 0
    ELSE IF DeliverPanics(d, offset, len) THEN Len(d)
    ELSE len - offset

(* a copy that reads the buffer from its start, header included *)
Deliver_NoOffset(d, buf, offset, len) ==
    [i \in 1..Len(d) |-> IF i <= len - offset THEN buf[i] ELSE d[i]]

Deliver(d, buf, offset, len) ==
    [i \in 1..Len(d) |-> IF i <= len - offset THEN buf[offset + i] ELSE d[i]]

receive(buf, len, result) ==
    /\ ~panicked
    /\ hw_rx
    /\ IF IsSome(app) /\ IsSome(Unwrap(app).app_read)
         THEN LET a == Unwrap(app)
                  offset == PayloadOffset
                  d == Unwrap(a.app_read)
                  cb == OptionTake(a.rx_callback)
              IN IF SlicePanics(buf, offset, len) \/ DeliverPanics(d, offset, len)
                   THEN /\ Panic("receive", DeliverCount(d, buf, offset, len))
                        /\ hw_rx' = FALSE
                   ELSE /\ app' = Some([a EXCEPT
                                          !.app_read = Some(Deliver(d, buf, offset, len)),
                                          !.rx_callback = cb.left])
                        /\ sched' = IF IsSome(cb.val)
                                      THEN Some([cb |-> Unwrap(cb.val), arg |-> result])
                                      ELSE None
                        /\ op' = "receive"
                        /\ rc' = "NONE"
                        /\ hw_rval' = "NONE"
                        /\ copied' = DeliverCount(d, buf, offset, len)
                        /\ rx_returns' = 1
                        /\ hw_rx' = TRUE
                        /\ UNCHANGED <<busy, kernel_tx, configured, radio_ready, hw_tx,
                                       handed, completed, panicked>>
         ELSE /\ op' = "receive"
              /\ rc' = "NONE"
              /\ sched' = None
              /\ hw_rval' = "NONE"
              /\ copied' = 0
              /\ rx_returns' = 1
              /\ hw_rx' = TRUE
              /\ UNCHANGED <<busy, app, kernel_tx, configured, radio_ready, hw_tx,
                             handed, completed, panicked>>
    /\ UNCHANGED <<length_vars, signbus_vars>>

----------------------------------------------------------------------------
(* The radio is switched on or off (outside the capsule) *)

radio_power(on) ==
    /\ ~panicked
    /\ radio_ready # on
    /\ radio_ready' = on
    /\ Returns("radio_power", "NONE")
    /\ UNCHANGED <<busy, app, kernel_tx, configured, hw_tx, hw_rx, handed,
                   completed, panicked>>
    /\ UNCHANGED <<length_vars, signbus_vars>>

----------------------------------------------------------------------------

(* the slices drawn for allow: a zeroed destination for selector 0, a *)
(* numbered source for selector 1                                      *)
SlicesFor(allow_num) ==
    IF allow_num = 0 THEN ReadSlices
    ELSE IF allow_num = 1 THEN WriteSlices
    ELSE {Pattern(1, 0)}

ArgsFor(cmd_num) == IF cmd_num = 5 THEN TxArgs ELSE Addresses

Next ==
    \/ config_buffer(KernelBuffer)
    \/ \E appid \in AppIds, n \in 0..2 : \E slice \in SlicesFor(n) :
          allow(appid, n, slice)
    \/ \E n \in 0..2, cb \in Callbacks : subscribe(n, cb)
    \/ \E n \in 0..7 : \E arg1 \in ArgsFor(n) : command(n, arg1, 1)
    \/ \E result \in HwResults : send_done(Head(hw_tx).buf, result)
    \/ \E len \in 0..RxBufLen, result \in HwResults : receive(RxBuffer, len, result)
    \/ \E on \in BOOLEAN : radio_power(on)

Spec == Init /\ [][Next]_vars

----------------------------------------------------------------------------
(* The transmit length of command 5, for every length the argument can     *)
(* carry and the header sizes a radio may report                            *)

(* radio.header_size() is a u8: none, the one of the driver model, the     *)
(* largest                                                                  *)
HeaderSizes == {0, HeaderSize, 255}

LengthArgs == {a + l * 65536 : a \in Addresses, l \in 0..255}

LengthInit ==
    /\ RadioInit
    /\ SignbusInit
    /\ tx_in \in [arg1 : LengthArgs, header_size : HeaderSizes]
    /\ tx_out = None

(* let len = (arg1 >> 16) & 0xff; ...                                       *)
(* let transmit_len = len as u8 + self.radio.header_size();                 *)
(* in a build that checks overflow the sum panics when it does not fit      *)
transmit_len_checked ==
    /\ tx_out = None
    /\ LET len == DecodeLen(tx_in.arg1)
       IN tx_out' = Some(IF U8AddOverflows(len % 256, tx_in.header_size)
                           THEN [panic |-> TRUE, len |-> 0]
                           ELSE [panic |-> FALSE,
                                 len |-> U8Add(len % 256, tx_in.header_size)])
    /\ UNCHANGED <<tx_in, radio_vars, signbus_vars>>

(* in a build that does not, the sum wraps *)
transmit_len_wrapping ==
    /\ tx_out = None
    /\ LET len == DecodeLen(tx_in.arg1)
       IN tx_out' = Some([panic |-> FALSE,
                          len |-> U8Add(len % 256, tx_in.header_size)])
    /\ UNCHANGED <<tx_in, radio_vars, signbus_vars>>

LengthNext == transmit_len_checked \/ transmit_len_wrapping

LengthSpec == LengthInit /\ [][LengthNext]_vars

----------------------------------------------------------------------------
(* SignbusAppLayer::signbus_app_send *)

BusAddresses == {50}

(* SignbusFrameType: NotificationFrame .. ErrorFrame *)
FrameTypes == 0..3

(* SignbusApiType: InitializationApiType .. HighestApiType *)
ApiTypes == 1..10

MessageTypes == {7}

Messages == {Pattern(n, 20) : n \in 0..MaxMsg}

(* message_length: u16, as the caller states it; the largest one makes the *)
(* sum of line 89 overflow                                                  *)
MessageLengths == 0..(MaxMsg + 1) \cup {65535}

(* what signbus_protocol_send may return *)
ProtocolResults == {"SUCCESS", "FAIL"}

(* let len: u16 = 1 + 1 + 1 + message_length *)
FrameLenOverflows(message_length) == 1 + 1 + 1 + message_length > 65535

FrameLen(message_length) == (1 + 1 + 1 + message_length) % 65536

(* the closure given to payload.map: payload[0..2] are indexed, then        *)
(* payload[3..len] and message[0..message_length] are sliced, all checked   *)
FillPanics(p, len, message_length, message) ==
    \/ Len(p) < 3
    \/ len < 3
    \/ len > Len(p)
    \/ message_length > Len(message)

FillPayload(p, frame_type, api_type, message_type, len, message) ==
    [i \in 1..Len(p) |->
        IF i = 1 THEN frame_type
        ELSE IF i = 2 THEN api_type
        ELSE IF i = 3 THEN message_type
        ELSE IF i <= len THEN message[i - 3]
        ELSE p[i]]

(* a send that leaves the buffer in the cell *)
TakePayload_PutBack(o) == [val |-> o, left |-> o]

(* self.payload.take() *)
TakePayload(o) == OptionTake(o)

(* checked: the build checks integer overflow; result: what the protocol   *)
(* layer returns if it is called                                            *)
signbus_app_send(address, frame_type, api_type, message_type, message_length, message, checked, result) ==
    /\ ~app_panicked
    /\ UNCHANGED <<radio_vars, length_vars>>
    /\ LET len == FrameLen(message_length)
       IN IF checked /\ FrameLenOverflows(message_length)
            THEN /\ app_panicked' = TRUE
                 /\ app_rc' = "PANIC"
                 /\ UNCHANGED <<payload, protocol_calls, protocol_got, app_calls>>
          ELSE IF IsSome(payload)
                  /\ FillPanics(Unwrap(payload), len, message_length, message)
            THEN /\ app_panicked' = TRUE
                 /\ app_rc' = "PANIC"
                 /\ payload' = None
                 /\ UNCHANGED <<protocol_calls, protocol_got, app_calls>>
          ELSE
            LET filled == IF IsSome(payload)
                            THEN Some(FillPayload(Unwrap(payload), frame_type,
                                                  api_type, message_type, len,
                                                  message))
                            ELSE None
                taken == TakePayload(filled)
            IN /\ payload' = taken.left
               /\ app_calls' = Sat(app_calls)
               /\ app_panicked' = FALSE
               /\ IF IsSome(taken.val)
                    THEN /\ protocol_calls' = Sat(protocol_calls)
                         /\ protocol_got' = Some([address |-> address,
                                                  buf |-> Unwrap(taken.val),
                                                  len |-> len,
                                                  rval |-> result])
                         /\ app_rc' = result
                    ELSE /\ app_rc' = "SUCCESS"
                         /\ UNCHANGED <<protocol_calls, protocol_got>>

SignbusNext ==
    \E address \in BusAddresses, frame_type \in FrameTypes, api_type \in ApiTypes,
       message_type \in MessageTypes, message_length \in MessageLengths,
       message \in Messages, checked \in BOOLEAN, result \in ProtocolResults :
        signbus_app_send(address, frame_type, api_type, message_type,
                         message_length, message, checked, result)

SignbusSpec == Init /\ [][SignbusNext]_vars

----------------------------------------------------------------------------
(* Properties *)

InFlight == Len(hw_tx)

HasWriteSource == IsSome(app) /\ IsSome(Unwrap(app).app_write)

(* C1: a transmit command issued while an accepted transmission has not   *)
(* had its send_done is rejected with EBUSY and hands nothing to the      *)
(* radio; a transmit command issued right after send_done is never        *)
(* rejected with EBUSY.                                                   *)
C1_BusySerializes ==
    [][ /\ (op' = "command_tx" /\ InFlight > 0) =>
              /\ rc' = "EBUSY"
              /\ hw_rval' = "NONE"
              /\ UNCHANGED <<hw_tx, kernel_tx, handed, busy>>
        /\ (op' = "command_tx" /\ op = "send_done") => rc' # "EBUSY"
      ]_vars

(* a second transmission is refused with EBUSY while one is in flight, *)
(* after an earlier one was accepted and completed                     *)
C1_Witness ==
    /\ op = "command_tx"
    /\ rc = "EBUSY"
    /\ InFlight = 1
    /\ completed >= 1

(* C2: at most one transmission is in flight, busy is true exactly when  *)
(* one is, busy becomes true only in the step where the radio accepts a  *)
(* transmit and false only in send_done.                                 *)
C2_BusyIffInFlight ==
    /\ [](InFlight <= 1 /\ (busy <=> InFlight = 1))
    /\ [][ /\ (~busy /\ busy') =>
                 (op' = "command_tx" /\ hw_rval' = "SUCCESS" /\ InFlight' = InFlight + 1)
           /\ (busy /\ ~busy') => op' = "send_done"
         ]_vars

(* busy has been set by an accepted transmit and is observed by a later *)
(* syscall; a completion has cleared it before                          *)
C2_Witness ==
    /\ busy
    /\ InFlight = 1
    /\ completed >= 1
    /\ op = "subscribe"

(* C3 as claimed: once config_buffer has run, the buffer is either with  *)
(* the capsule (no transmission in flight) or with the radio (one in     *)
(* flight, busy set).                                                    *)
C3_Claimed ==
    configured =>
        \/ (IsSome(kernel_tx) /\ InFlight = 0 /\ ~busy)
        \/ (~IsSome(kernel_tx) /\ InFlight = 1 /\ busy)

(* C4 as claimed: a transmit command from a registered write-source     *)
(* slice that passes the checks and that the radio accepts sets busy and *)
(* returns SUCCESS.                                                      *)
C4_Claimed ==
    (op = "command_tx" /\ HasWriteSource /\ hw_rval = "SUCCESS") =>
        (busy /\ rc = "SUCCESS")

(* C5 as claimed: when the radio rejects the transmit, the kernel buffer *)
(* is back in kernel_tx after the command, busy is false and the radio's *)
(* code is the command's result.                                         *)
C5_Claimed ==
    (op = "command_tx" /\ HasWriteSource /\ hw_rval \notin {"NONE", "SUCCESS"}) =>
        (IsSome(kernel_tx) /\ ~busy /\ rc = hw_rval)

(* C6 as claimed: a transmit command that passes the three checks and     *)
(* asks for more bytes than the registered write-source slice holds       *)
(* returns ESIZE, leaves kernel_tx and its bytes alone, does not call the *)
(* radio and leaves busy false.                                           *)
C6_Claimed ==
    [][ \A arg1 \in TxArgs :
          ( /\ TxPrecheck = "OK"
            /\ HasWriteSource
            /\ DecodeLen(arg1) > WriteLen(Unwrap(app))
            /\ command_tx(arg1) ) =>
              /\ rc' = "ESIZE"
              /\ hw_rval' = "NONE"
              /\ ~busy'
              /\ UNCHANGED <<kernel_tx, hw_tx>>
      ]_vars

(* C7 as claimed: a transmit command that passes the three checks with no *)
(* write-source slice registered, or no record at all, returns ESIZE for  *)
(* every length and does not call the radio.                              *)
C7_Claimed ==
    [][ \A arg1 \in TxArgs :
          ( /\ TxPrecheck = "OK"
            /\ ~HasWriteSource
            /\ command_tx(arg1) ) =>
              /\ rc' = "ESIZE"
              /\ hw_rval' = "NONE"
      ]_vars

(* C8: after every send_done the capsule holds the kernel buffer and busy *)
(* is false, with or without a transmit callback; and when exactly one    *)
(* transmit has been handed to the radio and completed, a transmit        *)
(* command is not rejected with ENOMEM.                                   *)
C8_SendDoneReclaims ==
    [][ /\ (op' = "send_done") => (IsSome(kernel_tx') /\ ~busy')
        /\ (op' = "command_tx" /\ handed = 1 /\ completed = 1) => rc' # "ENOMEM"
      ]_vars

(* a completion with no transmit callback registered has reclaimed the *)
(* buffer                                                               *)
C8_Witness ==
    /\ op = "send_done"
    /\ sched = None
    /\ IsSome(kernel_tx)
    /\ ~busy
    /\ handed = 1
    /\ completed = 1

CallbacksOf(o) ==
    IF IsSome(o) THEN <<Unwrap(o).tx_callback, Unwrap(o).rx_callback>>
    ELSE <<None, None>>

(* C9 as claimed: a registered callback stays registered until a later  *)
(* subscribe replaces it, and every send_done (every receive with a     *)
(* read-destination slice) schedules the registered callback.           *)
C9_Claimed ==
    [][ /\ (CallbacksOf(app') # CallbacksOf(app)) => op' = "subscribe"
        /\ (op' = "send_done" /\ IsSome(CallbacksOf(app)[1])) =>
              (IsSome(sched') /\ Unwrap(sched').cb = Unwrap(CallbacksOf(app)[1]))
        /\ ( /\ op' = "receive"
             /\ ~panicked'
             /\ IsSome(app)
             /\ IsSome(Unwrap(app).app_read)
             /\ IsSome(CallbacksOf(app)[2]) ) =>
              (IsSome(sched') /\ Unwrap(sched').cb = Unwrap(CallbacksOf(app)[2]))
      ]_vars

(* C10 as claimed: with the buffer installed, the radio ready, nothing in *)
(* flight and a write-source slice registered, a transmit command is      *)
(* never rejected with EBUSY or ENOMEM, whatever failed before.           *)
C10_Claimed ==
    [][ ( /\ op' = "command_tx"
          /\ configured
          /\ radio_ready
          /\ InFlight = 0
          /\ HasWriteSource ) => rc' \notin {"EBUSY", "ENOMEM"}
      ]_vars

HasReadDest == IsSome(app) /\ IsSome(Unwrap(app).app_read)

ReadDest(o) == Unwrap(Unwrap(o).app_read)

(* the payload bytes of a packet of len bytes: len - offset, none when the *)
(* packet is shorter than the header                                       *)
PayloadBytes(len, offset) == IF len > offset THEN len - offset ELSE 0

Min(a, b) == IF a < b THEN a ELSE b

(* C11 as claimed: every receive gives the buffer back to the radio with *)
(* exactly one set_receive_buffer call, whatever the record, the length  *)
(* and the payload offset.                                               *)
C11_Claimed ==
    op = "receive" => (rx_returns = 1 /\ hw_rx)

(* C12: receive stores at most min(len - offset, length of the          *)
(* read-destination slice) bytes, so never past the end of the slice.   *)
C12_NoWritePastEnd ==
    [][ (op' = "receive" /\ HasReadDest) =>
          \A len \in 0..RxBufLen, result \in HwResults :
              receive(RxBuffer, len, result) =>
                  /\ copied' <= Min(PayloadBytes(len, PayloadOffset), Len(ReadDest(app)))
                  /\ Len(ReadDest(app')) = Len(ReadDest(app))
      ]_vars

(* a packet with more payload than the slice holds: the loop filled the *)
(* slice and stopped at its end                                         *)
C12_Witness ==
    /\ op = "receive"
    /\ panicked
    /\ HasReadDest
    /\ Len(ReadDest(app)) >= 1
    /\ copied = Len(ReadDest(app))

(* C13: when the read-destination slice is large enough, receive copies *)
(* buf[offset..len] in order to the start of the slice and changes no   *)
(* other byte of it.                                                    *)
C13_PayloadCopied ==
    [][ (op' = "receive" /\ HasReadDest) =>
          \A len \in 0..RxBufLen, result \in HwResults :
              ( /\ len >= PayloadOffset
                /\ len - PayloadOffset <= Len(ReadDest(app))
                /\ receive(RxBuffer, len, result) ) =>
                  /\ ~panicked'
                  /\ Len(ReadDest(app')) = Len(ReadDest(app))
                  /\ \A i \in 1..Len(ReadDest(app)) :
                        ReadDest(app')[i] =
                            IF i <= len - PayloadOffset
                              THEN RxBuffer[PayloadOffset + i]
                              ELSE ReadDest(app)[i]
      ]_vars

(* two payload bytes have been delivered to the start of the slice *)
C13_Witness ==
    /\ op = "receive"
    /\ ~panicked
    /\ copied = 2
    /\ HasReadDest
    /\ ReadDest(app)[1] = RxBuffer[PayloadOffset + 1]
    /\ ReadDest(app)[2] = RxBuffer[PayloadOffset + 2]

(* a field of the record, None when there is no record *)
Field(o, f) == IF IsSome(o) THEN Unwrap(o)[f] ELSE None

RecordFields == {"tx_callback", "rx_callback", "app_read", "app_write"}

(* the record after a call that sets field f to v *)
OnlyFieldSet(f, v) ==
    /\ IsSome(app')
    /\ Field(app', f) = Some(v)
    /\ \A g \in RecordFields \ {f} : Field(app', g) = Field(app, g)

(* C14: an allow or subscribe call with selector 0 or 1 sets the field it *)
(* targets to the value passed, whoever calls, and leaves the other three *)
(* fields as they were (absent when never set); no call resets the        *)
(* record.                                                                *)
C14_LatestCallWins ==
    [][ /\ (op' = "allow") =>
              \A appid \in AppIds, n \in 0..2 : \A slice \in SlicesFor(n) :
                  allow(appid, n, slice) =>
                      IF n = 0 THEN OnlyFieldSet("app_read", slice)
                      ELSE IF n = 1 THEN OnlyFieldSet("app_write", slice)
                      ELSE app' = app
        /\ (op' = "subscribe") =>
              \A n \in 0..2, cb \in Callbacks :
                  subscribe(n, cb) =>
                      IF n = 0 THEN OnlyFieldSet("tx_callback", cb)
                      ELSE IF n = 1 THEN OnlyFieldSet("rx_callback", cb)
                      ELSE app' = app
      ]_vars

(* all four fields have been set, the transmit callback last *)
C14_Witness ==
    /\ op = "subscribe"
    /\ rc = "SUCCESS"
    /\ \A g \in RecordFields : IsSome(Field(app, g))
    /\ Field(app, "tx_callback") = Some(MaxCb)
    /\ Len(Unwrap(Field(app, "app_write"))) = MaxSlice

NothingChanges ==
    /\ hw_rval' = "NONE"
    /\ UNCHANGED <<busy, app, kernel_tx, hw_tx, hw_rx, handed, completed>>

(* C15: the transmit command checks busy, then the radio, then the kernel *)
(* buffer, and the first failure decides: EBUSY when busy whatever the    *)
(* other two, else EOFF when the radio is not ready whatever the buffer,  *)
(* else ENOMEM when kernel_tx is empty; nothing changes in the three      *)
(* cases.                                                                 *)
C15_FirstFailureWins ==
    [][ (op' = "command_tx") =>
          /\ busy => (rc' = "EBUSY" /\ NothingChanges)
          /\ (~busy /\ ~radio_ready) => (rc' = "EOFF" /\ NothingChanges)
          /\ (~busy /\ radio_ready /\ ~IsSome(kernel_tx)) =>
                (rc' = "ENOMEM" /\ NothingChanges)
      ]_vars

(* EBUSY is returned while the radio is also off and the buffer away *)
C15_Witness ==
    /\ op = "command_tx"
    /\ rc = "EBUSY"
    /\ busy
    /\ ~radio_ready
    /\ ~IsSome(kernel_tx)

(* C16: allow and subscribe with a selector other than 0 and 1, and       *)
(* command with selector 3, 4 or one above 6, return ENOSUPPORT and leave *)
(* busy, the buffer and the record as they were, busy or not.             *)
C16_Unsupported ==
    [][ /\ (op' = "allow") =>
              \A appid \in AppIds : \A slice \in SlicesFor(2) :
                  allow(appid, 2, slice) => (rc' = "ENOSUPPORT" /\ NothingChanges)
        /\ (op' = "subscribe") =>
              \A cb \in Callbacks :
                  subscribe(2, cb) => (rc' = "ENOSUPPORT" /\ NothingChanges)
        /\ (op' = "command") =>
              \A n \in {3, 4, 7} : \A arg1 \in ArgsFor(n) :
                  command(n, arg1, 1) => (rc' = "ENOSUPPORT" /\ NothingChanges)
      ]_vars

(* an unsupported allow while a transmission is in flight and the other *)
(* fields of the record are still unset                                 *)
C16_Witness ==
    /\ op = "allow"
    /\ rc = "ENOSUPPORT"
    /\ busy
    /\ ~IsSome(Field(app, "app_read"))

(* C18, as claimed: a transmit that passes its checks with a write-source *)
(* slice copies either all L decoded bytes or none of them into the       *)
(* kernel buffer; no copy stops part-way.                                  *)
C18_Claimed ==
    [][ (op' = "command_tx" /\ TxPrecheck = "OK" /\ HasWriteSource) =>
          \A arg1 \in TxArgs :
              ( /\ WriteLen(Unwrap(app)) >= DecodeLen(arg1)
                /\ command_tx(arg1) )
              => copied' \in {0, DecodeLen(arg1)}
      ]_vars

(* C19: whenever busy is true the registration record exists, and no step *)
(* removes a record that exists, so the send_done that follows an         *)
(* accepted transmit finds the record, reclaims the buffer and clears     *)
(* busy.                                                                  *)
C19_BusyHasRecord ==
    /\ [](busy => IsSome(app))
    /\ [][IsSome(app) => IsSome(app')]_vars
    /\ [][(busy /\ op' = "send_done") => (~busy' /\ IsSome(kernel_tx'))]_vars

(* a completion arrived for an accepted transmit and found the record *)
C19_Witness ==
    /\ op = "send_done"
    /\ completed > 0
    /\ IsSome(app)
    /\ ~busy
    /\ IsSome(kernel_tx)

(* C17, as claimed: for every payload length 0..255 decoded from the      *)
(* transmit argument and every header size, the length handed to the      *)
(* radio is the integer sum of the two, and it fits the 8-bit parameter.  *)
C17_Claimed ==
    IsSome(tx_out) =>
        /\ ~Unwrap(tx_out).panic
        /\ Unwrap(tx_out).len = DecodeLen(tx_in.arg1) + tx_in.header_size
        /\ Unwrap(tx_out).len \in 0..255

(* C20: signbus_app_send hands its payload buffer to the protocol layer   *)
(* and never takes it back: after any call that returned the payload cell *)
(* is empty, every call made with the cell empty leaves the protocol      *)
(* layer alone and returns SUCCESS, and signbus_protocol_send is reached  *)
(* at most once per instance.                                             *)
C20_PayloadOneShot ==
    /\ [](app_calls > 0 => ~IsSome(payload))
    /\ [](protocol_calls <= 1)
    /\ [][ (~IsSome(payload) /\ ~app_panicked')
              => ( /\ app_rc' = "SUCCESS"
                   /\ UNCHANGED <<protocol_calls, protocol_got>> )
         ]_vars

(* a second call returned SUCCESS although the one send, of the first *)
(* call, had failed                                                   *)
C20_Witness ==
    /\ app_calls = 2
    /\ protocol_calls = 1
    /\ ~IsSome(payload)
    /\ app_rc = "SUCCESS"
    /\ IsSome(protocol_got)
    /\ Unwrap(protocol_got).rval = "FAIL"
    /\ Unwrap(protocol_got).len = 1 + 1 + 1 + 1

====
